---- MODULE Spec2Model ----
\* Model of the expense-creation endpoint POST /api/expenses:
\* idempotencyMiddleware -> validateCreateExpense -> ExpenseController.createExpense,
\* the idempotency_store and expenses tables, and the expiry sweep.
\* Text values (header values, payload fields) are sequences of one-character strings.
EXTENDS Integers, Sequences, FiniteSets, TLC

\* ------------------------------------------------------------------ bounds
MaxReqs == 2
MaxArrivals == 3
MaxFaults == 1
MaxTime == 48
TickHours == 24

\* The number of outcomes of the random source considered for a key.
MaxDraws == 2

\* The number of requests the form posts.
MaxPosts == 6

\* The length of the generated amount texts.
MaxAmountLen == 3

\* retry: 3
retry == 3

\* The first delay and the longest delay of retryDelay, in milliseconds.
retryDelayBase == 1000

retryDelayMax == 30000

\* ------------------------------------------------------------------ program constants
TTL_HOURS == 24

\* ------------------------------------------------------------------ text helpers
Rep(c, n) == [i \in 1..n |-> c]

Digits == {"0", "1", "2", "3", "4", "5", "6", "7", "8", "9"}

HexLower == Digits \cup {"a", "b", "c", "d", "e", "f"}

HexUpper == {"A", "B", "C", "D", "E", "F"}

\* ------------------------------------------------------------------ idempotency key check
\* A header is [present, value]: req.headers['idempotency-key'] is undefined
\* when the header is absent and a string (possibly empty) otherwise.
Hdr(v) == [present |-> TRUE, value |-> v]

NoHeader == [present |-> FALSE, value |-> <<>>]

\* !idempotencyKey : undefined and the empty string are both falsy.
isFalsyKey(h) == ~h.present \/ h.value = <<>>

\* A key check that tests only the length and the alphabet of the key.
uuidRegexCharsOnly(k) ==
    /\ Len(k) = 36
    /\ \A i \in 1..36 : k[i] \in HexLower \cup HexUpper \cup {"-"}

\* /^[0-9a-f]{8}-[0-9a-f]{4}-[0-9a-f]{4}-[0-9a-f]{4}-[0-9a-f]{12}$/i
uuidRegexTest(k) ==
    /\ Len(k) = 36
    /\ \A i \in 1..36 :
         IF i \in {9, 14, 19, 24} THEN k[i] = "-"
         ELSE k[i] \in HexLower \cup HexUpper

KeyLower == Rep("1", 8) \o <<"-">> \o Rep("1", 4) \o <<"-", "4">> \o Rep("1", 3)
            \o <<"-", "8">> \o Rep("1", 3) \o <<"-">> \o Rep("1", 12)

KeyUpper == Rep("A", 8) \o <<"-">> \o Rep("b", 4) \o <<"-", "4">> \o Rep("C", 3)
            \o <<"-", "9">> \o Rep("d", 3) \o <<"-">> \o Rep("E", 12)

KeyShort == Rep("1", 8) \o <<"-">> \o Rep("1", 4) \o <<"-", "4">> \o Rep("1", 3)
            \o <<"-", "8">> \o Rep("1", 3) \o <<"-">> \o Rep("1", 11)

KeyNotHex == Rep("g", 8) \o <<"-">> \o Rep("1", 4) \o <<"-", "4">> \o Rep("1", 3)
             \o <<"-", "8">> \o Rep("1", 3) \o <<"-">> \o Rep("1", 12)

KeyNoDash == Rep("1", 36)

\* The header values a client may send.
HeaderValues == {NoHeader, Hdr(<<>>), Hdr(KeyLower), Hdr(KeyUpper), Hdr(KeyShort),
                 Hdr(KeyNotHex), Hdr(KeyNoDash)}

\* ------------------------------------------------------------------ money
Whitespace == {" ", "\t"}

RECURSIVE trimStart(_)
trimStart(s) == IF s # <<>> /\ Head(s) \in Whitespace THEN trimStart(Tail(s)) ELSE s

RECURSIVE trimEnd(_)
trimEnd(s) ==
    IF s # <<>> /\ s[Len(s)] \in Whitespace THEN trimEnd(SubSeq(s, 1, Len(s) - 1)) ELSE s

\* String.prototype.trim
trim(s) == trimEnd(trimStart(s))

AllDigits(s) == \A i \in 1..Len(s) : s[i] \in Digits

\* Position of the first "." of s, or 0.
DotPos(s) ==
    IF \E i \in 1..Len(s) : s[i] = "."
    THEN CHOOSE i \in 1..Len(s) : s[i] = "." /\ \A j \in 1..(i - 1) : s[j] # "."
    ELSE 0

\* An amountRegex without the limit on the fractional digits.
amountRegexAnyDecimals(s) ==
    LET d == DotPos(s) IN
    IF d = 0 THEN Len(s) >= 1 /\ AllDigits(s)
    ELSE /\ d >= 2
         /\ AllDigits(SubSeq(s, 1, d - 1))
         /\ Len(s) - d >= 1
         /\ AllDigits(SubSeq(s, d + 1, Len(s)))

\* /^\d+(\.\d{1,2})?$/
amountRegexTest(s) ==
    LET d == DotPos(s) IN
    IF d = 0 THEN Len(s) >= 1 /\ AllDigits(s)
    ELSE /\ d >= 2
         /\ AllDigits(SubSeq(s, 1, d - 1))
         /\ Len(s) - d \in {1, 2}
         /\ AllDigits(SubSeq(s, d + 1, Len(s)))

DigitVal(c) ==
    CASE c = "0" -> 0 [] c = "1" -> 1 [] c = "2" -> 2 [] c = "3" -> 3 [] c = "4" -> 4
      [] c = "5" -> 5 [] c = "6" -> 6 [] c = "7" -> 7 [] c = "8" -> 8 [] c = "9" -> 9

\* The character of a decimal digit.
DigitChar(n) == <<"0", "1", "2", "3", "4", "5", "6", "7", "8", "9">>[n + 1]

RECURSIVE stripLeadingZeros(_)
stripLeadingZeros(s) ==
    IF Len(s) > 1 /\ Head(s) = "0" THEN stripLeadingZeros(Tail(s)) ELSE s

\* The exact value of a string that matches amountRegex: the integer digits
\* without leading zeros and the two fractional digits.
DecimalOf(s) ==
    LET d == DotPos(s)
        ip == IF d = 0 THEN s ELSE SubSeq(s, 1, d - 1)
        fp == IF d = 0 THEN <<>> ELSE SubSeq(s, d + 1, Len(s))
    IN [int |-> stripLeadingZeros(ip), frac |-> fp \o Rep("0", 2 - Len(fp))]

Dec(ip, fp) == [int |-> ip, frac |-> fp]

\* a > b for digit sequences of the same length.
LexGreater(a, b) ==
    \E i \in 1..Len(a) :
        /\ DigitVal(a[i]) > DigitVal(b[i])
        /\ \A j \in 1..(i - 1) : a[j] = b[j]

\* x > y for exact decimals.
DecGreater(x, y) ==
    \/ Len(x.int) > Len(y.int)
    \/ Len(x.int) = Len(y.int) /\ LexGreater(x.int \o x.frac, y.int \o y.frac)

DecIsZero(x) == x.int = <<"0">> /\ x.frac = <<"0", "0">>

\* 9999999999.99
CodecCeiling == Dec(Rep("9", 10), <<"9", "9">>)

\* A business ceiling as loose as the one of validateAmount.
BusinessCeilingLoose == Dec(Rep("9", 10), <<"9", "9">>)

\* 10000000
BusinessCeiling == Dec(<<"1">> \o Rep("0", 7), <<"0", "0">>)

AmountRequired == "Amount is required"
AmountFormat == "Amount must be a positive number with maximum 2 decimal places (e.g., 123.45)"
AmountNotPositive == "Amount must be greater than 0"
AmountTooLarge == "Amount is too large"
AmountType == "Amount must be a string for precision"
AmountCeiling == "Amount cannot exceed 10,000,000"
Valid == "valid"

\* validateAmount: Valid, or the error it returns.
validateAmount(amount) ==
    IF amount = <<>> \/ trim(amount) = <<>> THEN AmountRequired
    ELSE IF ~amountRegexTest(amount) THEN AmountFormat
    ELSE IF DecIsZero(DecimalOf(amount)) THEN AmountNotPositive
    ELSE IF DecGreater(DecimalOf(amount), CodecCeiling) THEN AmountTooLarge
    ELSE Valid

\* Decimal.prototype.toString of the stored DECIMAL(12,2) value: trailing
\* fractional zeros and a bare decimal point are not printed.
decimalToString(x) ==
    IF x.frac = <<"0", "0">> THEN x.int
    ELSE IF x.frac[2] = "0" THEN x.int \o <<".", x.frac[1]>>
    ELSE x.int \o <<".">> \o x.frac

\* ------------------------------------------------------------------ payload values
\* A JSON value of the request body: a string, a number, or undefined (absent).
Str(s) == [t |-> "string", v |-> s]

Num(s) == [t |-> "number", v |-> s]

Undef == [t |-> "undefined", v |-> <<>>]

\* !x
Falsy(x) ==
    \/ x.t = "undefined"
    \/ x.t = "string" /\ x.v = <<>>
    \/ x.t = "number" /\ x.v = <<"0">>

UpperLetters == <<"A", "B", "C", "D", "E", "F", "G", "H", "I", "J", "K", "L", "M",
                  "N", "O", "P", "Q", "R", "S", "T", "U", "V", "W", "X", "Y", "Z">>

LowerLetters == <<"a", "b", "c", "d", "e", "f", "g", "h", "i", "j", "k", "l", "m",
                  "n", "o", "p", "q", "r", "s", "t", "u", "v", "w", "x", "y", "z">>

toLowerChar(c) ==
    IF \E i \in 1..26 : UpperLetters[i] = c
    THEN LowerLetters[CHOOSE i \in 1..26 : UpperLetters[i] = c]
    ELSE c

toLowerCase(s) == [i \in 1..Len(s) |-> toLowerChar(s[i])]

Contains(s, pat) ==
    \E i \in 1..(Len(s) - Len(pat) + 1) : SubSeq(s, i, i + Len(pat) - 1) = pat

ALLOWED_CATEGORIES ==
    << <<"F", "o", "o", "d">>,
       <<"T", "r", "a", "n", "s", "p", "o", "r", "t">>,
       <<"E", "n", "t", "e", "r", "t", "a", "i", "n", "m", "e", "n", "t">>,
       <<"U", "t", "i", "l", "i", "t", "i", "e", "s">>,
       <<"H", "e", "a", "l", "t", "h", "c", "a", "r", "e">>,
       <<"S", "h", "o", "p", "p", "i", "n", "g">>,
       <<"O", "t", "h", "e", "r">> >>

\* /<script|javascript:|onerror=|onclick=/i
suspiciousPatterns(s) ==
    LET l == toLowerCase(s) IN
    \/ Contains(l, <<"<", "s", "c", "r", "i", "p", "t">>)
    \/ Contains(l, <<"j", "a", "v", "a", "s", "c", "r", "i", "p", "t", ":">>)
    \/ Contains(l, <<"o", "n", "e", "r", "r", "o", "r", "=">>)
    \/ Contains(l, <<"o", "n", "c", "l", "i", "c", "k", "=">>)

\* ------------------------------------------------------------------ dates
\* /^\d{4}-\d{2}-\d{2}$/
dateRegexTest(s) ==
    /\ Len(s) = 10
    /\ \A i \in 1..10 : IF i \in {5, 8} THEN s[i] = "-" ELSE s[i] \in Digits

RECURSIVE NumOf(_)
NumOf(s) == IF s = <<>> THEN 0 ELSE 10 * NumOf(SubSeq(s, 1, Len(s) - 1)) + DigitVal(s[Len(s)])

YearOf(s) == NumOf(SubSeq(s, 1, 4))

MonthOf(s) == NumOf(SubSeq(s, 6, 7))

DayOf(s) == NumOf(SubSeq(s, 9, 10))

IsLeap(y) == (y % 4 = 0 /\ y % 100 # 0) \/ y % 400 = 0

DaysInMonth(y, m) ==
    IF m = 2 THEN (IF IsLeap(y) THEN 29 ELSE 28)
    ELSE IF m \in {4, 6, 9, 11} THEN 30 ELSE 31

RECURSIVE DaysBeforeMonth(_, _)
DaysBeforeMonth(y, m) ==
    IF m <= 1 THEN 0 ELSE DaysBeforeMonth(y, m - 1) + DaysInMonth(y, m - 1)

\* Day number of a calendar day (days since 0000-01-01); a day past the end
\* of its month counts on into the next month, as Date does.
DayNumber(y, m, d) ==
    365 * y + ((y + 3) \div 4) - ((y + 99) \div 100) + ((y + 399) \div 400)
        + DaysBeforeMonth(y, m) + d

\* new Date(date + 'T00:00:00Z') is a valid date: the engine accepts months
\* 01..12 and days 01..31 in an ISO string and rejects the rest as NaN.
dateIsValid(s) == MonthOf(s) \in 1..12 /\ DayOf(s) \in 1..31

dateDayNumber(s) == DayNumber(YearOf(s), MonthOf(s), DayOf(s))

\* The calendar day on which the clock is 0.
EpochDate == <<"2", "0", "2", "6", "-", "0", "1", "-", "3", "1">>

\* The day number of the server's current day at clock value now (hours).
todayDayNumber(now) == dateDayNumber(EpochDate) + (now \div 24)

minDate == <<"2", "0", "0", "0", "-", "0", "1", "-", "0", "1">>

Pad(n, w) == [i \in 1..w |-> DigitChar((n \div (10 ^ (w - i))) % 10)]

\* expense.date.toISOString().split('T')[0] of new Date(date)
dateToIso(s) ==
    LET y == YearOf(s)
        m == MonthOf(s)
        d == DayOf(s)
        over == d > DaysInMonth(y, m)
        d2 == IF over THEN d - DaysInMonth(y, m) ELSE d
        m2 == IF over THEN (IF m = 12 THEN 1 ELSE m + 1) ELSE m
        y2 == IF over /\ m = 12 THEN y + 1 ELSE y
    IN Pad(y2, 4) \o <<"-">> \o Pad(m2, 2) \o <<"-">> \o Pad(d2, 2)

\* ------------------------------------------------------------------ validateCreateExpense
amountErrors(amount) ==
    IF amount.t = "undefined" THEN <<AmountRequired>>
    ELSE IF amount.t # "string" THEN <<AmountType>>
    ELSE IF validateAmount(amount.v) # Valid THEN <<validateAmount(amount.v)>>
    ELSE IF DecGreater(DecimalOf(amount.v), BusinessCeiling) THEN <<AmountCeiling>>
    ELSE <<>>

categoryErrors(category) ==
    IF Falsy(category) THEN <<"Category is required">>
    ELSE IF category.t # "string" THEN <<"Category must be a string">>
    ELSE IF trim(category.v) = <<>> THEN <<"Category cannot be empty">>
    ELSE IF ~(\E i \in 1..Len(ALLOWED_CATEGORIES) : ALLOWED_CATEGORIES[i] = trim(category.v))
         THEN <<"Category must be one of the allowed categories">>
    ELSE <<>>

descriptionErrors(description) ==
    IF Falsy(description) THEN <<"Description is required">>
    ELSE IF description.t # "string" THEN <<"Description must be a string">>
    ELSE LET trimmedDesc == trim(description.v) IN
         (IF trimmedDesc = <<>> THEN <<"Description cannot be empty">>
          ELSE IF Len(trimmedDesc) < 3 THEN <<"Description must be at least 3 characters">>
          ELSE IF Len(trimmedDesc) > 500 THEN <<"Description must be 500 characters or less">>
          ELSE <<>>)
         \o (IF suspiciousPatterns(trimmedDesc)
             THEN <<"Description contains invalid characters">> ELSE <<>>)

dateErrors(date, now) ==
    IF Falsy(date) THEN <<"Date is required">>
    ELSE IF date.t # "string" THEN <<"Date must be a string in YYYY-MM-DD format">>
    ELSE IF ~dateRegexTest(date.v) THEN <<"Date must be in YYYY-MM-DD format">>
    ELSE IF ~dateIsValid(date.v) THEN <<"Date is invalid (e.g., 2026-02-30 does not exist)">>
    ELSE (IF dateDayNumber(date.v) >= todayDayNumber(now) + 1
          THEN <<"Date cannot be in the future">> ELSE <<>>)
         \o (IF dateDayNumber(date.v) < dateDayNumber(minDate)
             THEN <<"Date cannot be before year 2000">> ELSE <<>>)

\* The errors array of validateCreateExpense for an object body.
validationErrors(body, now) ==
    amountErrors(body.amount) \o categoryErrors(body.category)
        \o descriptionErrors(body.description) \o dateErrors(body.date, now)
        \o (IF body.extra THEN <<"Unexpected fields">> ELSE <<>>)

BodyRequired == [error |-> "Validation Error", message |-> "Request body is required",
                 details |-> <<>>]

InvalidData(errors) == [error |-> "Validation Error", message |-> "Invalid request data",
                        details |-> errors]

\* validateCreateExpense: either it calls next(), or it sends a 400 with body json.
validateCreateExpense(body, now) ==
    IF ~body.isObject THEN [next |-> FALSE, json |-> BodyRequired]
    ELSE IF validationErrors(body, now) # <<>>
         THEN [next |-> FALSE, json |-> InvalidData(validationErrors(body, now))]
    ELSE [next |-> TRUE, json |-> InvalidData(<<>>)]

\* ------------------------------------------------------------------ request bodies
Body(a, c, d, dt) ==
    [isObject |-> TRUE, amount |-> a, category |-> c, description |-> d, date |-> dt,
     extra |-> FALSE]

Food == <<"F", "o", "o", "d">>

Lunch == <<"L", "u", "n", "c", "h">>

Jan15 == <<"2", "0", "2", "6", "-", "0", "1", "-", "1", "5">>

\* {amount:"99.99", category:"Food", description:"Lunch", date:"2026-01-15"}
BodyLunch == Body(Str(<<"9", "9", ".", "9", "9">>), Str(Food), Str(Lunch), Str(Jan15))

\* the same with amount "0.00", which validation rejects
BodyZero == Body(Str(<<"0", ".", "0", "0">>), Str(Food), Str(Lunch), Str(Jan15))

Bodies == {BodyLunch, BodyZero}

\* ------------------------------------------------------------------ state
VARIABLES
    clock,      \* the current time, in hours
    store,      \* the rows of idempotency_store
    expenses,   \* the rows of expenses
    req,        \* the POST /api/expenses requests being served or last served
    arrivals,   \* the number of requests received so far
    faults,     \* the number of database operations that have failed so far
    form,       \* the ExpenseForm component and its mutation (FormSpec)
    sample,     \* an amount under validation and its outcome (AmountSpec)
    payload     \* a request body under validation and its outcome (PayloadSpec)

vars == <<clock, store, expenses, req, arrivals, faults, form, sample, payload>>

Reqs == 1..MaxReqs

NoResponse == [error |-> "", message |-> "", details |-> <<>>]

ErrorBody(e, m) == [error |-> e, message |-> m, details |-> <<>>]

KeyRequired == ErrorBody("Bad Request", "Idempotency-Key header is required for POST requests")

KeyInvalid == ErrorBody("Bad Request", "Idempotency-Key must be a valid UUID")

CheckFailed == ErrorBody("Internal Server Error", "Failed to process idempotency check")

UnexpectedError == ErrorBody("Internal Server Error", "An unexpected error occurred")

\* The form is not mounted.
NoForm == [mounted |-> FALSE]

\* No amount is under validation.
NoSample == [stage |-> "none"]

\* No request body is under validation.
NoPayload == [stage |-> "none"]

\* A request that has not arrived yet.
IdleReq ==
    [pc |-> "idle", id |-> 0, hdr |-> NoHeader, body |-> BodyLunch, found |-> {},
     status |-> 0, resp |-> NoResponse, validated |-> FALSE, invoked |-> FALSE,
     created |-> 0, ins |-> "none", insExpiresAt |-> 0, prior |-> {}, quiet |-> TRUE,
     sent |-> 0]

Init ==
    /\ clock = 0
    /\ store = {}
    /\ expenses = {}
    /\ req = [r \in Reqs |-> IdleReq]
    /\ arrivals = 0
    /\ faults = 0
    /\ form = NoForm
    /\ sample = NoSample
    /\ payload = NoPayload

\* The rows of the store with the given key.
withKey(s, k) == {rec \in s : rec.key = k}

\* An expiry test that treats the instant of expiry as expired.
isExpiredInclusive(now, rec) == now >= rec.expiresAt

\* new Date() > existingRecord.expiresAt
isExpired(now, rec) == now > rec.expiresAt

\* A caching test without the upper bound on the status.
shouldCacheNoUpperBound(status) == status >= 200

\* res.statusCode >= 200 && res.statusCode < 300
shouldCache(status) == status >= 200 /\ status < 300

\* A store without the unique index on key.
noUniqueIndex(s, k) == TRUE

\* The unique index idempotency_store_key_key admits a row with key k.
uniqueKeyFree(s, k) == withKey(s, k) = {}

\* The status of a replayed response.
replayStatus == 200

\* A patched res.json that sets expiresAt to the current time.
resJsonNoTtl(q, status, body, now) ==
    [q EXCEPT !.pc = "done", !.status = status, !.resp = body, !.sent = q.sent + 1,
              !.ins = IF shouldCache(status) THEN "pending" ELSE q.ins,
              !.insExpiresAt = IF shouldCache(status) THEN now ELSE q.insExpiresAt]

\* The patched res.json (followed by originalJson): the response is sent, and
\* for a 2xx status the insert of the record is issued without being awaited.
resJson(q, status, body, now) ==
    [q EXCEPT !.pc = "done", !.status = status, !.resp = body, !.sent = q.sent + 1,
              !.ins = IF shouldCache(status) THEN "pending" ELSE q.ins,
              !.insExpiresAt = IF shouldCache(status) THEN now + TTL_HOURS ELSE q.insExpiresAt]

\* A response sent through the patched res.json.
patchedJson(q, status, body) ==
    [q EXCEPT !.pc = "done", !.status = status, !.resp = body, !.sent = q.sent + 1,
              !.ins = IF shouldCache(status) THEN "pending" ELSE q.ins]

\* A response sent through the unpatched res.json.
plainJson(q, status, body) ==
    [q EXCEPT !.pc = "done", !.status = status, !.resp = body, !.sent = q.sent + 1]

\* A next() that issues the insert of the record while createExpense is
\* still running.
proceedInsertsEarly(q, now) ==
    LET v == validateCreateExpense(q.body, now) IN
    IF v.next THEN [q EXCEPT !.pc = "create", !.validated = TRUE, !.invoked = TRUE,
                             !.ins = "pending", !.insExpiresAt = now + TTL_HOURS]
    ELSE resJson([q EXCEPT !.validated = TRUE], 400, v.json, now)

\* next() of idempotencyMiddleware: validateCreateExpense runs and, when it
\* calls next(), ExpenseController.createExpense awaits the service.
proceed(q, now) ==
    LET v == validateCreateExpense(q.body, now) IN
    IF v.next THEN [q EXCEPT !.pc = "create", !.validated = TRUE, !.invoked = TRUE]
    ELSE resJson([q EXCEPT !.validated = TRUE], 400, v.json, now)

\* A slot is free for a new request when it is unused, or when its request
\* has been answered and its insert, if any, has been resolved.
slotFree(q) == q.pc = "idle" \/ (q.pc = "done" /\ q.ins # "pending")

\* The earlier requests with header h that have been answered 201.
answered201(h) == {req[r0].id : r0 \in {r1 \in Reqs : req[r1].pc = "done"
                                          /\ req[r1].hdr = h /\ req[r1].status = 201}}

\* A continuation that validates the body before it replays a live record.
afterLookupValidatesFirst(q, found, now) ==
    IF found # {}
    THEN LET existingRecord == CHOOSE rec \in found : TRUE IN
         IF isExpired(now, existingRecord)
         THEN [q EXCEPT !.pc = "delete", !.found = found]
         ELSE IF validateCreateExpense(q.body, now).next
         THEN plainJson([q EXCEPT !.found = found], replayStatus, existingRecord.response)
         ELSE plainJson([q EXCEPT !.found = found], 400,
                        validateCreateExpense(q.body, now).json)
    ELSE proceed(q, now)

\* No request with header h is being served and no insert for one is pending.
noneInFlight(h) ==
    \A r0 \in Reqs : (req[r0].pc # "idle" /\ req[r0].hdr = h) => slotFree(req[r0])

\* The continuation after findUnique returned the rows found: replay of a
\* live record, delete of an expired one, or next().
afterLookup(q, found, now) ==
    IF found # {}
    THEN LET existingRecord == CHOOSE rec \in found : TRUE IN
         IF isExpired(now, existingRecord)
         THEN [q EXCEPT !.pc = "delete", !.found = found]
         ELSE plainJson([q EXCEPT !.found = found], replayStatus, existingRecord.response)
    ELSE proceed(q, now)

\* A request arrives: idempotencyMiddleware checks the header, then
\* prisma.idempotencyStore.findUnique is executed by the store (or fails) and
\* the middleware acts on its result.
Arrive(r, h, b, ok) ==
    /\ arrivals < MaxArrivals
    /\ slotFree(req[r])
    /\ req[r].pc = "idle" => \A r0 \in Reqs : r0 < r => req[r0].pc # "idle"
    /\ req[r].pc # "idle" => \A r0 \in Reqs : req[r0].pc # "idle"
    /\ arrivals' = arrivals + 1
    /\ ~ok => ~isFalsyKey(h) /\ uuidRegexTest(h.value) /\ faults < MaxFaults
    /\ faults' = IF ok THEN faults ELSE faults + 1
    /\ LET q == [IdleReq EXCEPT !.id = arrivals + 1, !.hdr = h]
       IN req' = [req EXCEPT ![r] =
                    IF isFalsyKey(h) THEN plainJson(q, 400, KeyRequired)
                    ELSE IF ~uuidRegexTest(h.value) THEN plainJson(q, 400, KeyInvalid)
                    ELSE IF ~ok THEN plainJson(q, 500, CheckFailed)
                    ELSE afterLookup([q EXCEPT !.body = b, !.prior = answered201(h),
                                               !.quiet = noneInFlight(h)],
                                     withKey(store, h.value), clock)]
    /\ UNCHANGED <<clock, store, expenses, form, sample, payload>>

\* The rows left by prisma.idempotencyStore.delete({where: {key}}).
deleteByKey(s, k) == s \ withKey(s, k)

\* A delete whose failure is ignored: the request goes on in either case.
DeleteBestEffort(r, ok) ==
    /\ ok \/ faults < MaxFaults
    /\ faults' = IF ok THEN faults ELSE faults + 1
    /\ req[r].pc = "delete"
    /\ store' = IF ok THEN deleteByKey(store, req[r].hdr.value) ELSE store
    /\ req' = [req EXCEPT ![r] = proceed(req[r], clock)]
    /\ UNCHANGED <<clock, expenses, arrivals, form, sample, payload>>

\* prisma.idempotencyStore.delete is executed by the store and the request
\* goes on; it throws when the store fails or no row has the key (P2025).
Delete(r, ok) ==
    /\ ok \/ faults < MaxFaults
    /\ faults' = IF ok THEN faults ELSE faults + 1
    /\ req[r].pc = "delete"
    /\ IF ok /\ withKey(store, req[r].hdr.value) # {}
       THEN /\ store' = deleteByKey(store, req[r].hdr.value)
            /\ req' = [req EXCEPT ![r] = proceed(req[r], clock)]
       ELSE /\ store' = store
            /\ req' = [req EXCEPT ![r] = plainJson(req[r], 500, CheckFailed)]
    /\ UNCHANGED <<clock, expenses, arrivals, form, sample, payload>>

\* The row prisma.expense.create inserts for a validated body.
expenseRow(id, body, now) ==
    [id |-> id, amount |-> DecimalOf(body.amount.v), category |-> trim(body.category.v),
     description |-> trim(body.description.v), date |-> dateToIso(body.date.v),
     createdAt |-> now, updatedAt |-> now]

\* ExpenseService.formatExpenseResponse
formatExpenseResponse(expense) ==
    [id |-> expense.id, amount |-> decimalToString(expense.amount),
     category |-> expense.category, description |-> expense.description,
     date |-> expense.date, createdAt |-> expense.createdAt,
     updatedAt |-> expense.updatedAt]

\* A controller that calls next(error) after it has sent the 201, so that
\* errorHandler sends a second response.
CreateExpenseAnswersTwice(r, ok) ==
    /\ ok \/ faults < MaxFaults
    /\ faults' = IF ok THEN faults ELSE faults + 1
    /\ req[r].pc = "create"
    /\ IF ok
       THEN LET expense == expenseRow(Cardinality(expenses) + 1, req[r].body, clock) IN
            /\ expenses' = expenses \cup {expense}
            /\ req' = [req EXCEPT ![r] =
                         resJson(resJson([req[r] EXCEPT !.created = expense.id], 201,
                                         formatExpenseResponse(expense), clock),
                                 500, UnexpectedError, clock)]
       ELSE /\ expenses' = expenses
            /\ req' = [req EXCEPT ![r] = resJson(req[r], 500, UnexpectedError, clock)]
    /\ UNCHANGED <<clock, store, arrivals, form, sample, payload>>

\* ExpenseService.createExpense is executed: the row is inserted and the
\* controller answers 201, or the insert throws and errorHandler answers 500.
CreateExpense(r, ok) ==
    /\ ok \/ faults < MaxFaults
    /\ faults' = IF ok THEN faults ELSE faults + 1
    /\ req[r].pc = "create"
    /\ IF ok
       THEN LET expense == expenseRow(Cardinality(expenses) + 1, req[r].body, clock) IN
            /\ expenses' = expenses \cup {expense}
            /\ req' = [req EXCEPT ![r] =
                         resJson([req[r] EXCEPT !.created = expense.id], 201,
                                 formatExpenseResponse(expense), clock)]
       ELSE /\ expenses' = expenses
            /\ req' = [req EXCEPT ![r] = resJson(req[r], 500, UnexpectedError, clock)]
    /\ UNCHANGED <<clock, store, arrivals, form, sample, payload>>

\* A row that holds the request body in place of the response body.
recordOfRequest(q, now) ==
    [key |-> q.hdr.value, response |-> q.body, createdAt |-> now,
     expiresAt |-> q.insExpiresAt]

\* The row a request's prisma.idempotencyStore.create inserts.
recordOf(q, now) ==
    [key |-> q.hdr.value, response |-> q.resp, createdAt |-> now,
     expiresAt |-> q.insExpiresAt]

\* An insert whose loser on the unique key answers with the cached response.
StoreCreateAnswersCached(r, ok) ==
    /\ ok \/ faults < MaxFaults
    /\ faults' = IF ok THEN faults ELSE faults + 1
    /\ req[r].ins = "pending"
    /\ IF ~ok
       THEN /\ store' = store
            /\ req' = [req EXCEPT ![r].ins = "failed"]
       ELSE IF withKey(store, req[r].hdr.value) = {}
       THEN /\ store' = store \cup {recordOf(req[r], clock)}
            /\ req' = [req EXCEPT ![r].ins = "stored"]
       ELSE /\ store' = store
            /\ req' = [req EXCEPT ![r].ins = "duplicate", ![r].status = 200,
                                  ![r].resp = (CHOOSE rec \in withKey(store, req[r].hdr.value) :
                                                 TRUE).response]
    /\ UNCHANGED <<clock, expenses, arrivals, form, sample, payload>>

\* An insert that is acknowledged by the store and stores nothing.
StoreCreateDropsRecord(r, ok) ==
    /\ ok \/ faults < MaxFaults
    /\ faults' = IF ok THEN faults ELSE faults + 1
    /\ req[r].ins = "pending"
    /\ store' = store
    /\ req' = [req EXCEPT ![r].ins = IF ok THEN "stored" ELSE "failed"]
    /\ UNCHANGED <<clock, expenses, arrivals, form, sample, payload>>

\* The store executes the insert issued by res.json; every failure is swallowed.
StoreCreate(r, ok) ==
    /\ ok \/ faults < MaxFaults
    /\ faults' = IF ok THEN faults ELSE faults + 1
    /\ req[r].ins = "pending"
    /\ IF ~ok
       THEN /\ store' = store
            /\ req' = [req EXCEPT ![r].ins = "failed"]
       ELSE IF uniqueKeyFree(store, req[r].hdr.value)
       THEN /\ store' = store \cup {recordOf(req[r], clock)}
            /\ req' = [req EXCEPT ![r].ins = "stored"]
       ELSE /\ store' = store
            /\ req' = [req EXCEPT ![r].ins = "duplicate"]
    /\ UNCHANGED <<clock, expenses, arrivals, form, sample, payload>>

\* deleteMany({where: {expiresAt: {lt: new Date()}}})
sweepKeeps(now, rec) == ~(rec.expiresAt < now)

cleanupExpiredIdempotencyRecords ==
    /\ store' = {rec \in store : sweepKeeps(clock, rec)}
    /\ UNCHANGED <<clock, expenses, req, arrivals, faults, form, sample, payload>>

\* Time passes.
Tick ==
    /\ clock + TickHours <= MaxTime
    /\ clock' = clock + TickHours
    /\ UNCHANGED <<store, expenses, req, arrivals, faults, form, sample, payload>>

Next ==
    \/ \E r \in Reqs, h \in HeaderValues, b \in Bodies, ok \in BOOLEAN : Arrive(r, h, b, ok)
    \/ \E r \in Reqs, ok \in BOOLEAN : Delete(r, ok)
    \/ \E r \in Reqs, ok \in BOOLEAN : CreateExpense(r, ok)
    \/ \E r \in Reqs, ok \in BOOLEAN : StoreCreate(r, ok)
    \/ cleanupExpiredIdempotencyRecords
    \/ Tick

Spec == Init /\ [][Next]_vars

\* ------------------------------------------------------------------ ExpenseForm
\* 'xxxxxxxx-xxxx-4xxx-yxxx-xxxxxxxxxxxx'
keyTemplate ==
    Rep("x", 8) \o <<"-">> \o Rep("x", 4) \o <<"-", "4">> \o Rep("x", 3) \o <<"-", "y">>
        \o Rep("x", 3) \o <<"-">> \o Rep("x", 12)

\* v.toString() for v in 0..15
toString10(v) ==
    <<"0", "1", "2", "3", "4", "5", "6", "7", "8", "9", "10", "11", "12", "13", "14", "15">>[v + 1]

\* v.toString(16) for v in 0..15
toString16(v) ==
    <<"0", "1", "2", "3", "4", "5", "6", "7", "8", "9", "a", "b", "c", "d", "e", "f">>[v + 1]

\* The number of matches of /[xy]/g among the first i characters.
matchIndex(i) == Cardinality({j \in 1..i : keyTemplate[j] \in {"x", "y"}})

\* generateIdempotencyKey, where rand[k] is (Math.random() * 16) | 0 in the
\* k-th call of the replacer.
generateIdempotencyKey(rand) ==
    [i \in 1..Len(keyTemplate) |->
        LET c == keyTemplate[i]
            r == rand[matchIndex(i)]
        IN IF c = "x" THEN toString16(r)
           ELSE IF c = "y" THEN toString16((r % 4) + 8)
           ELSE c]

\* The outcomes of Math.random considered: one sequence of 31 values per n.
RandomDraws == {[k \in 1..31 |-> (n + k) % 16] : n \in 0..(MaxDraws - 1)}

\* getTodayDate
Today == <<"2", "0", "2", "6", "-", "0", "1", "-", "3", "1">>

\* validateAmountFormat
validateAmountFormat(amount) ==
    amountRegexTest(amount) /\ ~DecIsZero(DecimalOf(amount))

\* The fields for which handleSubmit records a client-side validation error.
clientValidationErrors(f) ==
    {field \in {"amount", "category", "description", "date"} :
        \/ field = "amount" /\ (f.amount = <<>> \/ ~validateAmountFormat(f.amount))
        \/ field = "category" /\ trim(f.category) = <<>>
        \/ field = "description" /\ trim(f.description) = <<>>
        \/ field = "date" /\ f.date = <<>>}

\* No variables: the mutation has not been started.
NoVariables == [data |-> <<>>, idempotencyKey |-> <<>>]

\* The component after its first render: useState(generateIdempotencyKey()),
\* empty fields, today's date, and an idle mutation. posted is the sequence
\* of POST /expenses requests sent, each with the number of keys generated
\* before it.
mount(rand) ==
    [mounted |-> TRUE, idempotencyKey |-> generateIdempotencyKey(rand),
     amount |-> <<>>, category |-> <<>>, description |-> <<>>, date |-> Today,
     errors |-> {}, status |-> "idle", variables |-> NoVariables, failureCount |-> 0,
     waiting |-> FALSE, delay |-> 0, generated |-> 1, posted |-> <<>>]

\* A delay that grows by one second per retry.
retryDelayLinear(attemptIndex) ==
    LET linear == retryDelayBase * (attemptIndex + 1)
    IN IF linear < retryDelayMax THEN linear ELSE retryDelayMax

\* retryDelay: (attemptIndex) => Math.min(1000 * 2 ** attemptIndex, 30000)
retryDelay(attemptIndex) ==
    LET backoff == retryDelayBase * 2 ^ attemptIndex
    IN IF backoff < retryDelayMax THEN backoff ELSE retryDelayMax

\* createMutation.isPending
isLoading == form.status = "pending"

backend == <<clock, store, expenses, req, arrivals, faults>>

AmountInputs == {<<>>, <<"9", "9", ".", "9", "9">>, <<"0", ".", "0", "0">>}

setAmount(v) ==
    /\ ~isLoading
    /\ form' = [form EXCEPT !.amount = v]
    /\ UNCHANGED <<backend, sample, payload>>

setCategory(v) ==
    /\ ~isLoading
    /\ form' = [form EXCEPT !.category = v]
    /\ UNCHANGED <<backend, sample, payload>>

setDescription(v) ==
    /\ ~isLoading
    /\ form' = [form EXCEPT !.description = v]
    /\ UNCHANGED <<backend, sample, payload>>

setDate(v) ==
    /\ ~isLoading
    /\ form' = [form EXCEPT !.date = v]
    /\ UNCHANGED <<backend, sample, payload>>

\* The request createExpense(data, idempotencyKey) posts.
postOf(variables, kind) ==
    [key |-> variables.idempotencyKey, kind |-> kind, generated |-> form.generated]

\* handleSubmit: client-side validation, then createMutation.mutate, whose
\* first call of mutationFn posts the request.
handleSubmit ==
    /\ ~isLoading
    /\ Len(form.posted) < MaxPosts
    /\ LET fieldErrors == clientValidationErrors(form) IN
       IF fieldErrors # {}
       THEN form' = [form EXCEPT !.errors = fieldErrors]
       ELSE LET variables ==
                    [data |-> [amount |-> trim(form.amount), category |-> trim(form.category),
                               description |-> trim(form.description), date |-> form.date],
                     idempotencyKey |-> form.idempotencyKey]
            IN form' = [form EXCEPT !.errors = {}, !.status = "pending",
                                    !.variables = variables, !.failureCount = 0,
                                    !.delay = 0,
                                    !.posted = Append(form.posted, postOf(variables, "submit"))]
    /\ UNCHANGED <<backend, sample, payload>>

\* A settle in which a failed mutation also replaces the key.
settleRenewsKeyOnError(ok, rand) ==
    /\ isLoading /\ ~form.waiting
    /\ IF ok
       THEN form' = [form EXCEPT !.status = "success",
                                 !.idempotencyKey = generateIdempotencyKey(rand),
                                 !.generated = form.generated + 1,
                                 !.amount = <<>>, !.category = <<>>, !.description = <<>>,
                                 !.date = Today, !.errors = {}]
       ELSE IF form.failureCount < retry
       THEN form' = [form EXCEPT !.failureCount = form.failureCount + 1, !.waiting = TRUE,
                                 !.delay = retryDelay(form.failureCount)]
       ELSE form' = [form EXCEPT !.status = "error",
                                 !.idempotencyKey = generateIdempotencyKey(rand)]
    /\ UNCHANGED <<backend, sample, payload>>

\* The posted request settles. On success the mutation succeeds and the
\* onSuccess passed to mutate replaces the key and resets the form; on
\* failure a retry is scheduled after retryDelay(failureCount) while
\* failureCount < retry, and otherwise the
\* mutation fails and onError keeps the key.
settle(ok, rand) ==
    /\ isLoading /\ ~form.waiting
    /\ IF ok
       THEN form' = [form EXCEPT !.status = "success",
                                 !.idempotencyKey = generateIdempotencyKey(rand),
                                 !.generated = form.generated + 1,
                                 !.amount = <<>>, !.category = <<>>, !.description = <<>>,
                                 !.date = Today, !.errors = {}]
       ELSE IF form.failureCount < retry
       THEN form' = [form EXCEPT !.failureCount = form.failureCount + 1, !.waiting = TRUE,
                                 !.delay = retryDelay(form.failureCount)]
       ELSE form' = [form EXCEPT !.status = "error"]
    /\ UNCHANGED <<backend, sample, payload>>

\* retryDelay has elapsed: mutationFn is called again with the same variables.
retryFires ==
    /\ form.waiting
    /\ Len(form.posted) < MaxPosts
    /\ form' = [form EXCEPT !.waiting = FALSE,
                            !.posted = Append(form.posted, postOf(form.variables, "retry"))]
    /\ UNCHANGED <<backend, sample, payload>>

FormInit ==
    /\ \E rand \in RandomDraws : form = mount(rand)
    /\ clock = 0 /\ store = {} /\ expenses = {} /\ req = [r \in Reqs |-> IdleReq]
    /\ arrivals = 0 /\ faults = 0
    /\ sample = NoSample
    /\ payload = NoPayload

FormNext ==
    \/ \E v \in AmountInputs : setAmount(v)
    \/ \E v \in {<<>>, Food} : setCategory(v)
    \/ \E v \in {<<>>, Lunch} : setDescription(v)
    \/ \E v \in {<<>>, Today} : setDate(v)
    \/ handleSubmit
    \/ \E ok \in BOOLEAN, rand \in RandomDraws : settle(ok, rand)
    \/ retryFires

FormSpec == FormInit /\ [][FormNext]_vars

\* ------------------------------------------------------------------ amount validation
AmountAlphabet == {"0", "1", ".", "-"}

\* The amounts at the edges of the rules: "0.00", "-1.00", "1.234",
\* "10000001", "0.01", "10000000.00", "10000000000" and " "; then
\* "10000000.01", "9999999.99", "5", "99.90", "1e5", "1,0", " 1" and "+1".
BoundaryAmounts ==
    {<<"0", ".", "0", "0">>, <<"-", "1", ".", "0", "0">>, <<"1", ".", "2", "3", "4">>,
     <<"1">> \o Rep("0", 6) \o <<"1">>, <<"0", ".", "0", "1">>,
     <<"1">> \o Rep("0", 7) \o <<".", "0", "0">>, <<"1">> \o Rep("0", 10), <<" ">>,
     <<"1">> \o Rep("0", 7) \o <<".", "0", "1">>, Rep("9", 7) \o <<".", "9", "9">>,
     <<"5">>, <<"9", "9", ".", "9", "0">>, <<"1", "e", "5">>, <<"1", ",", "0">>,
     <<" ", "1">>, <<"+", "1">>}

\* The values of req.body.amount considered: short texts, the boundary
\* amounts, an absent amount and a number.
AmountSamples ==
    {Str(s) : s \in UNION {[1..n -> AmountAlphabet] : n \in 0..MaxAmountLen} \cup BoundaryAmounts}
        \cup {Undef, Num(<<"5">>)}

\* Two creation requests are validated: the amount errors of each.
validateAmounts ==
    /\ sample.stage = "drawn"
    /\ sample' = [sample EXCEPT !.stage = "validated",
                                !.errors = <<amountErrors(sample.amounts[1]),
                                             amountErrors(sample.amounts[2])>>]
    /\ UNCHANGED <<backend, form, payload>>

\* The amount field of the 201 response to a creation request with the
\* given amount and otherwise valid fields.
responseAmount(amount) ==
    formatExpenseResponse(expenseRow(1, Body(amount, Str(Food), Str(Lunch), Str(Jan15)), 0)).amount

\* The two requests go on: each one that passed validation is created and
\* answered with the formatted expense.
createAmounts ==
    /\ sample.stage = "validated"
    /\ sample' = [sample EXCEPT !.stage = "created",
                                !.accepted = {i \in 1..2 : sample.errors[i] = <<>>},
                                !.rendered = [i \in 1..2 |->
                                                 IF sample.errors[i] = <<>>
                                                 THEN responseAmount(sample.amounts[i])
                                                 ELSE <<>>]]
    /\ UNCHANGED <<backend, form, payload>>

AmountInit ==
    /\ \E a, b \in AmountSamples :
           sample = [stage |-> "drawn", amounts |-> <<a, b>>, errors |-> <<>>,
                     accepted |-> {}, rendered |-> <<>>]
    /\ clock = 0 /\ store = {} /\ expenses = {} /\ req = [r \in Reqs |-> IdleReq]
    /\ arrivals = 0 /\ faults = 0
    /\ form = NoForm
    /\ payload = NoPayload

AmountNext == validateAmounts \/ createAmounts

AmountSpec == AmountInit /\ [][AmountNext]_vars

\* ------------------------------------------------------------------ payload validation
\* The values of req.body.amount considered.
PayloadAmounts ==
    {Undef, Num(<<"5">>), Str(<<>>), Str(<<"9", "9", ".", "9", "9">>),
     Str(<<"1", ".", "2", "3", "4">>), Str(<<"0">>), Str(<<"1">> \o Rep("0", 6) \o <<"1">>)}

\* The values of req.body.category considered.
PayloadCategories ==
    {Undef, Num(<<"0">>), Num(<<"5">>), Str(<<>>), Str(<<" ">>), Str(Food), Str(<<"F", "o", "o">>)}

\* The values of req.body.description considered; the last two are longer
\* than 500 characters.
PayloadDescriptions ==
    {Undef, Num(<<"5">>), Str(<<>>), Str(<<" ", " ">>), Str(<<"a", "b">>), Str(Lunch),
     Str(<<"<", "S", "c", "r", "i", "p", "t", ">">>),
     Str(Rep("a", 501)),
     Str(<<"o", "n", "c", "l", "i", "c", "k", "=">> \o Rep("a", 500))}

\* The values of req.body.date considered.
PayloadDates ==
    {Undef, Num(<<"5">>), Str(<<>>), Str(Jan15), Str(EpochDate),
     Str(<<"2", "0", "2", "6", "-", "1", "-", "5">>),
     Str(<<"2", "0", "2", "6", "-", "1", "3", "-", "0", "1">>),
     Str(<<"2", "0", "2", "6", "-", "0", "2", "-", "0", "1">>),
     Str(<<"1", "9", "9", "9", "-", "1", "2", "-", "3", "1">>)}

\* validateCreateExpense runs on the body: the reasons it pushes for each
\* field, and what it does (next() or the 400 response).
validateBody ==
    /\ payload.stage = "received"
    /\ payload' = [payload EXCEPT
                      !.stage = "validated",
                      !.errors = [amount |-> amountErrors(payload.body.amount),
                                  category |-> categoryErrors(payload.body.category),
                                  description |-> descriptionErrors(payload.body.description),
                                  date |-> dateErrors(payload.body.date, clock)],
                      !.result = validateCreateExpense(payload.body, clock)]
    /\ UNCHANGED <<backend, form, sample>>

PayloadInit ==
    /\ \E a \in PayloadAmounts, c \in PayloadCategories, d \in PayloadDescriptions,
          dt \in PayloadDates :
           payload = [stage |-> "received", body |-> Body(a, c, d, dt),
                      errors |-> [amount |-> <<>>, category |-> <<>>, description |-> <<>>,
                                  date |-> <<>>],
                      result |-> [next |-> FALSE, json |-> NoResponse]]
    /\ clock = 0 /\ store = {} /\ expenses = {} /\ req = [r \in Reqs |-> IdleReq]
    /\ arrivals = 0 /\ faults = 0
    /\ form = NoForm
    /\ sample = NoSample

PayloadNext == validateBody

PayloadSpec == PayloadInit /\ [][PayloadNext]_vars

\* ================================================================== properties
ValidKey(h) == h \in {Hdr(KeyLower), Hdr(KeyUpper)}

\* The 8-4-4-4-12 form: five groups of hexadecimal digits of either case,
\* separated by hyphens.
HexGroup(k, from, len) ==
    \A i \in from..(from + len - 1) :
        k[i] \in {"0", "1", "2", "3", "4", "5", "6", "7", "8", "9", "a", "b", "c", "d",
                  "e", "f", "A", "B", "C", "D", "E", "F"}

CanonicalForm(k) ==
    /\ Len(k) = 8 + 1 + 4 + 1 + 4 + 1 + 4 + 1 + 12
    /\ HexGroup(k, 1, 8) /\ k[9] = "-"
    /\ HexGroup(k, 10, 4) /\ k[14] = "-"
    /\ HexGroup(k, 15, 4) /\ k[19] = "-"
    /\ HexGroup(k, 20, 4) /\ k[24] = "-"
    /\ HexGroup(k, 25, 12)

Is2xx(status) == status \in 200..299

Answered(r) == req[r].pc = "done"

SuccessBody(body) == "id" \in DOMAIN body

\* C1: for every key, while no record can have expired and no database
\* operation has failed, createExpense has succeeded for at most one request
\* bearing the key, and all 2xx responses to requests bearing it carry the same body.
C1_AtMostOncePerKey ==
    (clock <= TTL_HOURS /\ faults = 0) =>
        \A r1, r2 \in Reqs :
            (r1 # r2 /\ ValidKey(req[r1].hdr) /\ req[r1].hdr = req[r2].hdr) =>
                /\ ~(req[r1].created # 0 /\ req[r2].created # 0)
                /\ (Answered(r1) /\ Answered(r2) /\ Is2xx(req[r1].status)
                        /\ Is2xx(req[r2].status)) => req[r1].resp = req[r2].resp

\* C2: when the only two requests so far bear the same well-formed key and
\* the same valid payload, the first was answered 201 before the second
\* arrived, no record can have expired and no database operation has failed,
\* the second is answered 200 with the body of the first and creates no expense.
C2_CreatedThenReplay ==
    \A r1, r2 \in Reqs :
        (/\ arrivals = 2 /\ clock <= TTL_HOURS /\ faults = 0
         /\ req[r1].id = 1 /\ req[r2].id = 2
         /\ req[r1].id \in req[r2].prior
         /\ req[r2].body = req[r1].body
         /\ Answered(r2)) =>
            /\ req[r1].status = 201
            /\ req[r2].status = 200
            /\ req[r2].resp = req[r1].resp
            /\ Cardinality(expenses) = 1

\* C3: when a request arrives with a key whose record exists and is not
\* expired at the lookup, it is answered 200 with the response stored in that
\* record, neither validateCreateExpense nor createExpense runs for it, and no
\* row is written.
C3_Lookup(r) ==
    /\ arrivals' = arrivals + 1
    /\ req'[r].id = arrivals'
    /\ faults' = faults

C3_Step ==
    \A r \in Reqs : \A rec \in store :
        (C3_Lookup(r) /\ rec.key = req'[r].hdr.value /\ ~(clock > rec.expiresAt)) =>
            /\ req'[r].pc = "done"
            /\ req'[r].status = 200
            /\ req'[r].resp = rec.response
            /\ ~req'[r].validated
            /\ ~req'[r].invoked
            /\ req'[r].created = 0
            /\ req'[r].ins = "none"
            /\ expenses' = expenses
            /\ store' = store

C4_NothingCached ==
    /\ \A r \in Reqs : (Answered(r) /\ ~Is2xx(req[r].status)) => req[r].ins = "none"
    /\ \A rec \in store : SuccessBody(rec.response)
    /\ \A r \in Reqs : (Answered(r) /\ req[r].found # {} /\ req[r].status = 200) =>
                           SuccessBody(req[r].resp)

C4_RunsAgain ==
    \A r \in Reqs :
        (/\ arrivals' = arrivals + 1 /\ req'[r].id = arrivals' /\ faults' = faults
         /\ req'[r].hdr.present /\ CanonicalForm(req'[r].hdr.value)
         /\ \A rec \in store : rec.key # req'[r].hdr.value) =>
            /\ req'[r].validated
            /\ req'[r].status # 200
            /\ req'[r].body.amount.v = <<"9", "9", ".", "9", "9">> => req'[r].invoked

\* C4: a request answered with a non-2xx status issues no insert of a record,
\* so the store and every replayed response hold only bodies of successful
\* creations; a request that arrives with a key that has no record runs
\* validation and, for a valid body, createExpense, whatever happened to
\* earlier requests with the key.
C4_FailuresAreNotCached == [](C4_NothingCached) /\ [][C4_RunsAgain]_vars

\* A request failed in validation or in createExpense and a later request
\* with the same key, which found no record, ran validation and createExpense.
W_C4_RetriedAfterFailure ==
    \E r1, r2 \in Reqs :
        /\ req[r1].id < req[r2].id /\ req[r1].hdr = req[r2].hdr
        /\ Answered(r1) /\ req[r1].validated /\ req[r1].status \in {400, 500}
        /\ req[r2].found = {} /\ req[r2].validated /\ req[r2].created # 0

\* The request was rejected by the key check with the given body, and nothing
\* else was done for it.
RejectedWith(r, body) ==
    /\ Answered(r) /\ req[r].status = 400 /\ req[r].resp = body
    /\ req[r].found = {} /\ ~req[r].validated /\ ~req[r].invoked
    /\ req[r].created = 0 /\ req[r].ins = "none"

\* C5 as stated: a request without the header is rejected with 'header is
\* required', and every request whose header value does not have the
\* 8-4-4-4-12 form is rejected with 'must be a valid UUID'.
C5_Original ==
    \A r \in Reqs : req[r].pc # "idle" =>
        /\ ~req[r].hdr.present => RejectedWith(r, KeyRequired)
        /\ (req[r].hdr.present /\ ~CanonicalForm(req[r].hdr.value)) =>
               RejectedWith(r, KeyInvalid)

\* C5 as amended: a request whose header is absent or empty is rejected with
\* 'header is required', one whose non-empty header value does not have the
\* 8-4-4-4-12 form is rejected with 'must be a valid UUID', and in both cases
\* nothing is looked up, validated, created or cached.
C5_KeyRejected ==
    \A r \in Reqs : req[r].pc # "idle" =>
        /\ (~req[r].hdr.present \/ req[r].hdr.value = <<>>) => RejectedWith(r, KeyRequired)
        /\ (req[r].hdr.present /\ req[r].hdr.value # <<>>
                /\ ~CanonicalForm(req[r].hdr.value)) => RejectedWith(r, KeyInvalid)

\* Requests with an absent header, an empty one and a malformed one have
\* been rejected while a record and an expense exist.
W_C5_Rejected ==
    /\ store # {} /\ expenses # {}
    /\ \E r \in Reqs : req[r].hdr = Hdr(<<>>) /\ RejectedWith(r, KeyRequired)
    /\ \E r \in Reqs : req[r].hdr.present /\ req[r].hdr.value # <<>>
                         /\ RejectedWith(r, KeyInvalid)

\* C6: the store never holds two records with the same key.
C6_OneRecordPerKey ==
    \A a, b \in store : a.key = b.key => a = b

\* Two requests with the same key have both had their insert executed: one
\* was stored and the other lost on the unique key.
W_C6_ConcurrentInserts ==
    \E r1, r2 \in Reqs :
        /\ req[r1].hdr = req[r2].hdr
        /\ req[r1].ins = "stored" /\ req[r2].ins = "duplicate"
        /\ withKey(store, req[r1].hdr.value) # {}

\* C7: each request whose createExpense succeeded is answered 201 with the
\* body of its own expense, before its insert is executed; an insert that
\* loses on the unique key leaves the request's response and the store as
\* they were, and exactly one record for the key is then in the store.
C7_OwnResponse ==
    \A r \in Reqs :
        /\ req[r].created # 0 =>
               /\ Answered(r) /\ req[r].status = 201
               /\ req[r].resp \in {formatExpenseResponse(e) :
                                      e \in {x \in expenses : x.id = req[r].created}}
        /\ req[r].ins # "none" => Answered(r)

C7_LoserIsSwallowed ==
    \A r \in Reqs :
        (req[r].ins = "pending" /\ req'[r].ins = "duplicate") =>
            /\ req'[r] = [req[r] EXCEPT !.ins = "duplicate"]
            /\ req'[r].status = 201
            /\ store' = store
            /\ Cardinality(withKey(store', req[r].hdr.value)) = 1

C8_LoserReturnsCached ==
    \A r \in Reqs :
        req[r].ins = "duplicate" =>
            \A rec \in withKey(store, req[r].hdr.value) :
                isExpired(clock, rec) \/ req[r].resp = rec.response

\* C9: a record leaves the store only when its expiresAt is in the past, and
\* a record in the store never changes.
C9_Removal ==
    \A rec \in store : rec \notin store' => rec.expiresAt < clock

C9_OnlyExpiredRemoved == [][C9_Removal]_vars

\* C10: a request whose lookup found an expired record and that has been
\* answered without any database failure went through validation, as a
\* request with an unused key does.
C10_ExpiredIsUnused ==
    \A r \in Reqs :
        (Answered(r) /\ faults = 0 /\ req[r].found # {}
            /\ ~(req[r].status = 200 /\ \A rec \in req[r].found : req[r].resp = rec.response)) =>
                req[r].validated

\* C11: the delete of an expired record is best-effort: when the row is
\* already gone at the delete (removed by the sweep or by a concurrent request
\* with the same key) and the store itself has not failed, the request that
\* found the expired record goes on to validation and is not answered 500.
C11_Step ==
    \A r \in Reqs :
        (req[r].pc = "delete" /\ req'[r] # req[r] /\ faults' = faults) =>
            /\ req'[r].validated
            /\ ~(req'[r].status = 500 /\ req'[r].resp = CheckFailed)

C11_DeleteIsBestEffort == [][C11_Step]_vars

\* C12: when a request arrives with a key whose record is live, it receives
\* the same status (200) and the same body as every earlier request that was
\* answered from that same record, whatever the bodies of the two requests
\* are: the replayed response depends on the key and the store only.
C12_Step ==
    \A r, r2 \in Reqs : \A rec \in store :
        (/\ arrivals' = arrivals + 1 /\ req'[r].id = arrivals' /\ faults' = faults
         /\ rec.key = req'[r].hdr.value /\ ~(clock > rec.expiresAt)
         /\ r2 # r /\ req[r2].pc = "done" /\ req[r2].hdr = req'[r].hdr
         /\ req[r2].found = {rec}) =>
            /\ req'[r].pc = "done"
            /\ req'[r].status = 200
            /\ req'[r].status = req[r2].status
            /\ req'[r].resp = req[r2].resp

C13_DifferentPayload(body, rec) ==
    DecimalOf(body.amount.v) # DecimalOf(rec.response.amount)

\* C13: when a request arrives with a key whose record is live, it is
\* answered 409 if its payload differs from the one originally submitted with
\* the key, and 200 with the cached response only if the payload is the same.
C13_Step ==
    \A r \in Reqs : \A rec \in store :
        (/\ arrivals' = arrivals + 1 /\ req'[r].id = arrivals' /\ faults' = faults
         /\ rec.key = req'[r].hdr.value /\ ~(clock > rec.expiresAt)) =>
            /\ C13_DifferentPayload(req'[r].body, rec) => req'[r].status = 409
            /\ req'[r].status = 200 => ~C13_DifferentPayload(req'[r].body, rec)

C13_DifferentPayloadConflicts == [][C13_Step]_vars

\* The request was answered from the record its lookup found.
C14_Replayed(r) ==
    /\ req[r].status = 200 /\ req[r].found # {}
    /\ \A rec \in req[r].found : req[r].resp = rec.response

\* The request has deleted the record its lookup found: it went on to
\* validation after finding one (C14_WritesAreAttributed ties this to the
\* step that removed the rows).
C14_Deleted(r) == req[r].found # {} /\ req[r].validated

\* The number of writes to the store the request has caused.
C14_Writes(r) ==
    (IF C14_Deleted(r) THEN 1 ELSE 0) + (IF req[r].ins # "none" THEN 1 ELSE 0)

C14_WriteCount ==
    \A r \in Reqs : Answered(r) =>
        /\ req[r].ins # "none" <=> (Is2xx(req[r].status) /\ ~C14_Replayed(r))
        /\ C14_Deleted(r) =>
               /\ ~C14_Replayed(r)
               /\ \A rec \in req[r].found : clock > rec.expiresAt
        /\ C14_Replayed(r) => C14_Writes(r) = 0
        /\ (req[r].found = {} /\ ~Is2xx(req[r].status)) => C14_Writes(r) = 0
        /\ C14_Writes(r) =
               (IF req[r].found # {} /\ ~C14_Replayed(r) /\ req[r].validated THEN 1 ELSE 0)
             + (IF Is2xx(req[r].status) /\ ~C14_Replayed(r) THEN 1 ELSE 0)

C14_WritesAreAttributed ==
    /\ \A r \in Reqs :
           (/\ req'[r].id = req[r].id
            /\ req[r].found # {} /\ ~req[r].validated /\ req'[r].validated) =>
               (/\ req[r].pc = "delete"
                /\ store' # store
                /\ store' = {rec \in store : rec.key # req[r].hdr.value})
    /\ \A r \in Reqs :
           (req[r].pc = "delete" /\ req'[r] # req[r]) =>
               (req'[r].validated <=> store' # store)
    /\ store' # store =>
           \/ req' = req /\ store' \subseteq store
                /\ \A rec \in store \ store' : rec.expiresAt < clock
           \/ \E r \in Reqs :
                  /\ \A r0 \in Reqs \ {r} : req'[r0] = req[r0]
                  /\ \/ req[r].pc = "delete" /\ req'[r].validated
                     \/ /\ req[r].ins = "pending" /\ req'[r].ins = "stored"
                        /\ Cardinality(store' \ store) = 1 /\ store \subseteq store'
                        /\ \A rec \in store' \ store : rec.key = req[r].hdr.value
    /\ \A r \in Reqs :
           (req[r].ins \notin {"none", "pending"} /\ req'[r].id = req[r].id) =>
               req'[r].ins = req[r].ins

C15_CheckFailed(q) ==
    /\ q.pc = "done" /\ q.status = 500
    /\ q.resp = [error |-> "Internal Server Error",
                 message |-> "Failed to process idempotency check", details |-> <<>>]
    /\ ~q.validated /\ ~q.invoked /\ q.created = 0 /\ q.ins = "none"

C15_Step ==
    \A r \in Reqs :
        /\ (arrivals' = arrivals + 1 /\ req'[r].id = arrivals' /\ faults' = faults + 1) =>
               C15_CheckFailed(req'[r]) /\ expenses' = expenses /\ store' = store
        /\ (/\ req[r].pc = "delete" /\ req'[r] # req[r]
            /\ faults' = faults + 1 \/ \A rec \in store : rec.key # req[r].hdr.value) =>
               C15_CheckFailed(req'[r]) /\ expenses' = expenses /\ store' = store

C15_Final ==
    \A r \in Reqs :
        (req[r].pc = "done" /\ req[r].status = 500 /\ ~req[r].validated) =>
            /\ C15_CheckFailed(req[r])
            /\ \A b \in Bodies :
                   LET v == validateCreateExpense(b, clock) IN
                   ~v.next => (v.json # req[r].resp /\ 400 # req[r].status)
            /\ BodyRequired # req[r].resp

\* C15: a request whose lookup fails, or whose delete of an expired record
\* fails (the store failing or the row being gone), is answered 500 with the
\* message 'Failed to process idempotency check', which no validation response
\* carries; validation and createExpense do not run for it, then or later,
\* and the step creates no expense and writes no record.
C15_LookupFailureIs500 == [](C15_Final) /\ [][C15_Step]_vars

\* One request was answered 500 because its lookup failed, and another
\* because the expired record it found was gone when it came to delete it.
W_C15_BothFailures ==
    \E r1, r2 \in Reqs :
        /\ r1 # r2 /\ C15_CheckFailed(req[r1]) /\ C15_CheckFailed(req[r2])
        /\ req[r1].found = {} /\ req[r2].found # {}
        /\ faults = 1 /\ expenses # {}

\* C16: a request whose insert of the record failed for a reason other than
\* a duplicate key has been answered with a 500-class status.
C16_InsertFailureSurfaced ==
    \A r \in Reqs :
        req[r].ins = "failed" => req[r].status \in 500..599

C17_Order ==
    \A r \in Reqs :
        /\ (req[r].validated \/ req[r].invoked \/ req[r].pc \in {"delete", "create"}) =>
               req[r].hdr.present /\ CanonicalForm(req[r].hdr.value)
        /\ req[r].pc = "delete" => ~req[r].validated /\ ~req[r].invoked /\ req[r].found # {}
        /\ req[r].invoked => req[r].validated
        /\ req[r].pc \in {"delete", "create"} => req[r].ins = "none" /\ req[r].created = 0
        /\ req[r].ins # "none" =>
               /\ req[r].pc = "done" /\ req[r].validated /\ req[r].invoked
               /\ req[r].created # 0
               /\ \E e \in expenses : e.id = req[r].created

C17_Step ==
    \A r \in Reqs :
        /\ (arrivals' = arrivals + 1 /\ req'[r].id = arrivals') =>
               /\ req'[r].validated =>
                      faults' = faults /\ \A rec \in store : rec.key # req'[r].hdr.value
               /\ req'[r].pc = "delete" =>
                      faults' = faults /\ \E rec \in store : rec.key = req'[r].hdr.value
               /\ req'[r].ins = "none" /\ req'[r].created = 0
        /\ req'[r].id = req[r].id =>
               /\ req[r].pc = "delete" => req'[r].pc \in {"delete", "create", "done"}
               /\ req[r].pc = "create" => req'[r].pc \in {"create", "done"}
               /\ req[r].pc = "done" => req'[r].pc = "done"
               /\ (req[r].ins = "none" /\ req'[r].ins # "none") =>
                      /\ req[r].pc = "create" /\ req'[r].ins = "pending"
                      /\ req[r].created = 0 /\ req'[r].created # 0
                      /\ store' = store
               /\ (req[r].created = 0 /\ req'[r].created # 0) => req[r].pc = "create"

\* C17: within one request the lookup is complete before validation and
\* createExpense start (validation runs at arrival only when the lookup found
\* no row, and otherwise only after the delete), createExpense starts only
\* after validation, the insert is issued only in the step in which
\* createExpense produces its result, never without a lookup before it, and a
\* request never has two of its steps outstanding at once.
C17_StepsAreOrdered == [](C17_Order) /\ [][C17_Step]_vars

\* A request went through every step in order: its lookup found an expired
\* record, it deleted it, was validated, created its expense and had its
\* record stored.
W_C17_AllSteps ==
    \E r \in Reqs :
        /\ req[r].found # {} /\ req[r].validated /\ req[r].invoked
        /\ req[r].created # 0 /\ req[r].status = 201 /\ req[r].ins = "stored"

\* C18: when the backend has created the expense of a first attempt and
\* answered it 201, and a retry with the same key and the same body arrives
\* after that, within the lifetime of a record and with no database failure,
\* the retry is answered 200 with the response of the first attempt and
\* creates no expense, however soon after the first answer it arrives.
C18_RetryIsReplayed ==
    \A r1, r2 \in Reqs :
        (/\ clock = 0 /\ faults = 0
         /\ req[r1].id # 0 /\ req[r1].id \in req[r2].prior
         /\ req[r1].hdr.present /\ CanonicalForm(req[r1].hdr.value)
         /\ req[r2].hdr = req[r1].hdr /\ req[r2].body = req[r1].body
         /\ req[r1].created # 0 /\ Answered(r2)) =>
            /\ req[r2].created = 0
            /\ req[r2].status = 200
            /\ req[r2].resp = req[r1].resp

C19_SameKey ==
    form.mounted =>
        /\ \A i, j \in DOMAIN form.posted :
               form.posted[i].generated = form.posted[j].generated =>
                   form.posted[i].key = form.posted[j].key
        /\ \A i \in DOMAIN form.posted :
               (i > 1 /\ form.posted[i].kind = "retry") =>
                   form.posted[i].key = form.posted[i - 1].key

C19_Step ==
    /\ Len(form'.posted) > Len(form.posted) =>
           /\ form'.posted[Len(form'.posted)].key = form.idempotencyKey
           /\ form'.idempotencyKey = form.idempotencyKey
    /\ (form.status = "pending" /\ form'.status = "success") <=>
           form'.generated = form.generated + 1
    /\ form'.generated # form.generated => form'.generated = form.generated + 1
    /\ form'.idempotencyKey # form.idempotencyKey =>
           form.status = "pending" /\ form'.status = "success"
    /\ (form.status = "pending" /\ form'.status = "error") =>
           form'.idempotencyKey = form.idempotencyKey

\* C19: every request the form posts carries the key the form holds; all
\* requests posted between two successes (the first attempt, its automatic
\* retries and every manual resubmission after an error) carry the same key;
\* and the form's key changes only in the step in which a submission
\* succeeds, where a key is generated.
C19_OneKeyPerSubmission == [](C19_SameKey) /\ [][C19_Step]_vars

\* A submission was posted and retried three times and failed, was submitted
\* again by hand with the same key and succeeded, and the form now holds
\* another key.
W_C19_ResubmittedThenRenewed ==
    /\ form.mounted /\ Len(form.posted) >= 5
    /\ \A i \in 2..4 : form.posted[i].kind = "retry"
    /\ form.posted[5].kind = "submit"
    /\ \A i \in 1..5 : form.posted[i].key = form.posted[1].key /\ form.posted[i].generated = 1
    /\ form.status = "success" /\ form.generated = 2
    /\ form.idempotencyKey # form.posted[1].key

C20_Rejected ==
    {<<"0", ".", "0", "0">>, <<"-", "1", ".", "0", "0">>, <<"1", ".", "2", "3", "4">>,
     <<"1", "0", "0", "0", "0", "0", "0", "1">>}

C20_Accepted ==
    {<<"0", ".", "0", "1">>, <<"1", "0", "0", "0", "0", "0", "0", "0", ".", "0", "0">>}

C20_Is(i, s) == sample.amounts[i].t = "string" /\ sample.amounts[i].v = s

\* C20 as stated: "0.00", "-1.00", "1.234" and "10000001" are each rejected,
\* any two of them with different reasons, and "0.01" and "10000000.00" are
\* accepted.
C20_Original ==
    sample.stage = "validated" =>
        /\ \A s \in C20_Rejected : C20_Is(1, s) => sample.errors[1] # <<>>
        /\ \A s \in C20_Accepted : C20_Is(1, s) => sample.errors[1] = <<>>
        /\ \A s, t \in C20_Rejected :
               (s # t /\ C20_Is(1, s) /\ C20_Is(2, t)) => sample.errors[1] # sample.errors[2]

\* C20 as amended: "0.00", "-1.00", "1.234" and "10000001" are each rejected
\* with exactly one reason; "-1.00" and "1.234" are rejected with the same
\* reason, and every other two of the four with different reasons; "0.01" and
\* "10000000.00" are accepted.
C20_BoundaryAmounts ==
    sample.stage = "validated" =>
        /\ \A s \in C20_Rejected : C20_Is(1, s) => Len(sample.errors[1]) = 1
        /\ \A s \in C20_Accepted : C20_Is(1, s) => sample.errors[1] = <<>>
        /\ \A s, t \in C20_Rejected :
               (s # t /\ C20_Is(1, s) /\ C20_Is(2, t)) =>
                   (sample.errors[1] = sample.errors[2]
                        <=> {s, t} = {<<"-", "1", ".", "0", "0">>, <<"1", ".", "2", "3", "4">>})

\* "-1.00" and "1.234" have been validated and rejected with the same reason.
W_C20_SharedReason ==
    /\ sample.stage = "validated"
    /\ C20_Is(1, <<"-", "1", ".", "0", "0">>) /\ C20_Is(2, <<"1", ".", "2", "3", "4">>)
    /\ sample.errors[1] = sample.errors[2] /\ Len(sample.errors[1]) = 1

C21_Digit(c) == c \in {"0", "1", "2", "3", "4", "5", "6", "7", "8", "9"}

\* One or more digits, optionally followed by a dot and one or two digits.
C21_WellFormed(s) ==
    \E n \in 1..Len(s) :
        /\ \A i \in 1..n : C21_Digit(s[i])
        /\ \/ Len(s) = n
           \/ /\ Len(s) - n \in {2, 3}
              /\ s[n + 1] = "."
              /\ \A i \in (n + 2)..Len(s) : C21_Digit(s[i])

\* The integer digits of a well-formed amount, and those that are not
\* leading zeros.
C21_IntDigits(s) ==
    LET n == CHOOSE m \in 1..Len(s) :
                 (\A i \in 1..m : C21_Digit(s[i])) /\ (m = Len(s) \/ s[m + 1] = ".")
    IN SubSeq(s, 1, n)

C21_Significant(s) ==
    LET ds == C21_IntDigits(s)
        nz == {i \in 1..Len(ds) : ds[i] # "0"}
    IN IF nz = {} THEN <<>>
       ELSE SubSeq(ds, CHOOSE i \in nz : \A j \in nz : i <= j, Len(ds))

\* The fractional digits of a well-formed amount that are not "0".
C21_FracNonZero(s) ==
    \E i \in (Len(C21_IntDigits(s)) + 2)..Len(s) : s[i] # "0"

\* The value is greater than 0.
C21_Positive(s) == C21_Significant(s) # <<>> \/ C21_FracNonZero(s)

\* The value is at most 10,000,000: fewer than eight significant integer
\* digits, or exactly "10000000" with no fractional part other than zeros.
C21_AtMostCeiling(s) ==
    \/ Len(C21_Significant(s)) < 8
    \/ /\ C21_Significant(s) = <<"1", "0", "0", "0", "0", "0", "0", "0">>
       /\ ~C21_FracNonZero(s)

\* C21: a string amount passes creation validation if and only if it is one
\* or more digits optionally followed by a dot and one or two digits, its
\* value is greater than 0 and its value is at most 10,000,000.
C21_AcceptedExactly ==
    sample.stage = "validated" =>
        \A i \in 1..2 :
            sample.amounts[i].t = "string" =>
                (sample.errors[i] = <<>> <=>
                    /\ C21_WellFormed(sample.amounts[i].v)
                    /\ C21_Positive(sample.amounts[i].v)
                    /\ C21_AtMostCeiling(sample.amounts[i].v))

\* "10000000.00" has been accepted and "10000000.01", which is below the
\* ceiling of validateAmount, has been rejected with the business ceiling.
W_C21_AtTheCeiling ==
    /\ sample.stage = "validated"
    /\ sample.amounts[1] = [t |-> "string",
                            v |-> <<"1", "0", "0", "0", "0", "0", "0", "0", ".", "0", "0">>]
    /\ sample.errors[1] = <<>>
    /\ sample.amounts[2] = [t |-> "string",
                            v |-> <<"1", "0", "0", "0", "0", "0", "0", "0", ".", "0", "1">>]
    /\ sample.errors[2] = <<"Amount cannot exceed 10,000,000">>

\* The position of the dot in s, or 0.
C22_Dot(s) == IF \E i \in 1..Len(s) : s[i] = "." THEN CHOOSE i \in 1..Len(s) : s[i] = "." ELSE 0

\* s rendered with exactly two fractional digits.
C22_TwoDigits(s) ==
    IF C22_Dot(s) = 0 THEN s \o <<".", "0", "0">>
    ELSE IF Len(s) - C22_Dot(s) = 1 THEN s \o <<"0">>
    ELSE s

\* C22: the amount field of the response to the creation of an accepted
\* amount s is s rendered with exactly two fractional digits: s itself when
\* it has two, and s padded with zeros otherwise.
C22_RenderedWithTwoDigits ==
    sample.stage = "created" =>
        \A i \in sample.accepted :
            sample.rendered[i] = C22_TwoDigits(sample.amounts[i].v)

C23_Fields == {"amount", "category", "description", "date"}

\* C23: validateCreateExpense reports at most one reason for each field of
\* the payload, so the 400 response lists at most one reason per field, and
\* an absent amount is reported as required and a non-string one as of the
\* wrong type before any later rule.
C23_OneReasonPerField ==
    payload.stage = "validated" =>
        /\ \A f \in C23_Fields : Len(payload.errors[f]) <= 1
        /\ Len(payload.result.json.details) <= Cardinality(C23_Fields)
        /\ payload.body.amount.t = "undefined" =>
               payload.errors.amount = <<"Amount is required">>
        /\ payload.body.amount.t = "number" =>
               payload.errors.amount = <<"Amount must be a string for precision">>

\* C24: the sweep does not change the outcome of a request. A request that
\* found an expired record, while no store operation fails and no other
\* request with its key has found that record, deletes the record and goes
\* on to validation when the sweep never runs; so it does the same when the
\* sweep runs at any moment.
C24_Step ==
    \A r \in Reqs :
        (/\ req[r].pc = "delete" /\ req'[r].pc # "delete"
         /\ faults' = faults /\ arrivals <= MaxReqs
         /\ \A r2 \in Reqs \ {r} : ~(req[r2].hdr = req[r].hdr /\ req[r2].found # {})) =>
            /\ req'[r].validated
            /\ req'[r].status # 500

C24_SweepIsInvisible == [][C24_Step]_vars

C25_Records ==
    \A rec \in store :
        /\ "id" \in DOMAIN rec.response
        /\ \E e \in expenses :
               /\ e.id = rec.response.id
               /\ rec.response.category = e.category
               /\ rec.response.description = e.description
               /\ rec.response.date = e.date

C25_Insert ==
    \A rec \in store' \ store :
        \E r \in Reqs :
            /\ req[r].pc = "done"
            /\ req[r].hdr.present /\ req[r].hdr.value = rec.key
            /\ req[r].status \in 200..299
            /\ req[r].resp = rec.response
            /\ req[r].created = rec.response.id

\* C25: every record in the store holds the body of an expense, and the id in
\* that body is the id of a row of expenses; a record enters the store only
\* as the insert of a request that bears its key and has been answered with a
\* 2xx status and exactly that body, so none is stored for a 4xx or 5xx
\* outcome.
C25_RecordsHoldSuccesses == [](C25_Records) /\ [][C25_Insert]_vars

\* A record is in the store whose request was answered 201 with the record's
\* response, and the expense of that response exists.
W_C25_Stored ==
    \E r \in Reqs : \E rec \in store :
        /\ req[r].ins = "stored" /\ req[r].status = 201
        /\ rec.key = req[r].hdr.value /\ rec.response = req[r].resp
        /\ \E e \in expenses : e.id = rec.response.id
        /\ \E r2 \in Reqs : req[r2].status \in {400, 500}

\* A request arrives, with no store failure, when rec is the record of its key.
C26_LooksUp(r, rec) ==
    /\ arrivals' = arrivals + 1 /\ req'[r].id = arrivals' /\ faults' = faults
    /\ req'[r].hdr.present /\ rec \in store /\ rec.key = req'[r].hdr.value

C26_Replayed(r, rec) ==
    req'[r].pc = "done" /\ req'[r].status = 200 /\ req'[r].resp = rec.response

C26_ReplayedUntilExpiry ==
    \A r \in Reqs : \A rec \in store :
        C26_LooksUp(r, rec) => (C26_Replayed(r, rec) <=> clock <= rec.expiresAt)

\* C26 as stated: every record has expiresAt = createdAt + 24 hours, and a
\* request is replayed exactly when its lookup happens at a time not later
\* than expiresAt.
C26_Original ==
    [](\A rec \in store : rec.expiresAt = rec.createdAt + 24)
        /\ [][C26_ReplayedUntilExpiry]_vars

C26_Records ==
    \A rec \in store : rec.expiresAt <= rec.createdAt + 24

C26_Step ==
    /\ \A r \in Reqs :
           (req[r].ins = "none" /\ req'[r].ins = "pending") =>
               req'[r].insExpiresAt = clock + 24
    /\ \A rec \in store' \ store :
           /\ rec.createdAt = clock
           /\ \E r \in Reqs :
                  /\ req[r].ins = "pending" /\ req[r].hdr.value = rec.key
                  /\ rec.expiresAt = req[r].insExpiresAt
    /\ C26_ReplayedUntilExpiry

\* C26 as amended: expiresAt is the time at which the 2xx response was sent
\* plus 24 hours; createdAt is the time at which the store executed the
\* insert, which is not earlier, so expiresAt <= createdAt + 24 hours; and a
\* request is replayed exactly when its lookup happens at a time not later
\* than expiresAt.
C26_ExpiryFromResponseTime == [](C26_Records) /\ [][C26_Step]_vars

\* A record was inserted later than its response was sent, so that it
\* expires less than 24 hours after createdAt, and a request that looked it
\* up at the instant expiresAt was replayed.
W_C26_LateInsert ==
    \E r \in Reqs : \E rec \in store :
        /\ rec.expiresAt < rec.createdAt + 24
        /\ req[r].found = {rec} /\ req[r].status = 200 /\ req[r].resp = rec.response
        /\ clock = rec.expiresAt

\* The requests bearing header h.
C27_Bearing(h) == {r \in Reqs : req[r].pc # "idle" /\ req[r].hdr = h}

\* The body of the request passes validation (the one valid body has the
\* amount "99.99").
C27_ValidBody(r) == req[r].body.amount.v = <<"9", "9", ".", "9", "9">>

FairInit ==
    /\ clock = 0
    /\ store = {}
    /\ expenses = {}
    /\ req = [r \in Reqs |-> IF r = 1
                              THEN plainJson([IdleReq EXCEPT !.id = 1, !.hdr = NoHeader],
                                             400, KeyRequired)
                              ELSE IdleReq]
    /\ arrivals = 1
    /\ faults = 0
    /\ form = NoForm
    /\ sample = NoSample
    /\ payload = NoPayload

\* The store answers every query a request awaits: a pending delete or
\* createExpense is eventually executed or fails.
FairSpec ==
    /\ FairInit
    /\ [][Next]_vars
    /\ WF_vars(\E r \in Reqs, ok \in BOOLEAN : Delete(r, ok) \/ CreateExpense(r, ok))

\* A request that has arrived is awaiting the store with no response sent, or
\* has been sent exactly one response.
C28_Count ==
    \A r \in Reqs :
        /\ req[r].pc = "idle" => req[r].sent = 0
        /\ req[r].pc \in {"delete", "create"} => req[r].sent = 0
        /\ req[r].pc = "done" => req[r].sent = 1
        /\ req[r].pc \in {"idle", "delete", "create", "done"}

\* No step, the execution of the record insert included, sends a further
\* response to an answered request or alters the one it was sent.
C28_Step ==
    \A r \in Reqs :
        (req[r].pc = "done" /\ req'[r].id = req[r].id) =>
            /\ req'[r].pc = "done" /\ req'[r].sent = req[r].sent
            /\ req'[r].status = req[r].status /\ req'[r].resp = req[r].resp

\* Again and again no request awaits the store: every request that awaits it
\* is eventually answered.
C28_Live == []<>(\A r \in Reqs : req[r].pc \notin {"delete", "create"})

\* C28: every POST /api/expenses request receives exactly one response on
\* every path: none has been sent while the request awaits the store, the
\* request is eventually answered, exactly one has been sent once it is
\* answered, and the asynchronous record insert neither sends a response nor
\* alters the one sent.
C28_ExactlyOneResponse == [](C28_Count) /\ [][C28_Step]_vars /\ C28_Live

\* One request was answered 201 and its record insert then failed, leaving
\* the response as sent; another was answered 400 by validation.
W_C28_InsertFailedAfter201 ==
    \E r1, r2 \in Reqs :
        /\ req[r1].status = 201 /\ req[r1].ins = "failed" /\ req[r1].sent = 1
        /\ req[r2].status = 400 /\ req[r2].validated /\ req[r2].sent = 1

\* The key is accepted by the key checks of idempotencyMiddleware: it is not
\* empty and has the form of five groups of 8, 4, 4, 4 and 12 hexadecimal
\* digits separated by dashes.
C29_PassesKeyCheck(k) ==
    /\ k # <<>>
    /\ Len(k) = 36
    /\ \A i \in 1..Len(k) :
           IF i \in {9, 14, 19, 24} THEN k[i] = "-"
           ELSE k[i] \in {"0", "1", "2", "3", "4", "5", "6", "7", "8", "9",
                          "a", "b", "c", "d", "e", "f", "A", "B", "C", "D", "E", "F"}
    /\ ~isFalsyKey(Hdr(k)) /\ uuidRegexTest(k)

\* C29: every key returned by generateIdempotencyKey, the one the form holds
\* and every one it has posted, passes the key-format check of the backend
\* middleware, so that it is never rejected as not a valid UUID.
C29_GeneratedKeysPass ==
    form.mounted =>
        /\ C29_PassesKeyCheck(form.idempotencyKey)
        /\ \A i \in 1..Len(form.posted) : C29_PassesKeyCheck(form.posted[i].key)

\* The form has posted a request with a key generated after a success, and
\* holds a third key.
W_C29_LaterKeyPosted ==
    /\ form.mounted
    /\ \E i \in 1..Len(form.posted) :
           /\ form.posted[i].generated = 2
           /\ form.posted[i].key # form.posted[1].key
           /\ C29_PassesKeyCheck(form.posted[i].key)
    /\ form.generated = 3

\* ------------------------------------------------------------------ one submission
\* The form after the user has filled in every field with a valid value.
RetryInit ==
    /\ \E rand \in RandomDraws :
           form = [mount(rand) EXCEPT !.amount = <<"9", "9", ".", "9", "9">>,
                                      !.category = Food, !.description = Lunch]
    /\ clock = 0 /\ store = {} /\ expenses = {} /\ req = [r \in Reqs |-> IdleReq]
    /\ arrivals = 0 /\ faults = 0
    /\ sample = NoSample
    /\ payload = NoPayload

RetryNext ==
    \/ \E v \in AmountInputs : setAmount(v)
    \/ handleSubmit
    \/ \E ok \in BOOLEAN, rand \in RandomDraws : settle(ok, rand)
    \/ retryFires

\* Every posted request settles (apiClient gives up after its timeout) and
\* every retry timer fires.
RetrySpec ==
    /\ RetryInit
    /\ [][RetryNext]_vars
    /\ WF_vars(\E ok \in BOOLEAN, rand \in RandomDraws : settle(ok, rand))
    /\ WF_vars(retryFires)

\* The submission has failed at most 3 times; the requests posted start with
\* a submission and never hold four retries in a row, so that one submission
\* posts at most four requests.
C30_AtMostFour ==
    /\ form.failureCount <= 3
    /\ form.posted # <<>> => form.posted[1].kind = "submit"
    /\ \A i \in 1..Len(form.posted) :
           (i + 3 <= Len(form.posted)) =>
               \E j \in i..(i + 3) : form.posted[j].kind = "submit"
    /\ form.waiting =>
           /\ form.status = "pending"
           /\ form.failureCount \in 1..3
           /\ form.delay = 1000 * 2 ^ (form.failureCount - 1)
           /\ form.delay \in {1000, 2000, 4000}

\* A retry is posted after the delay of 1 s, 2 s or 4 s that was scheduled for
\* it, with the key of the submission.
C30_Step ==
    (/\ Len(form'.posted) = Len(form.posted) + 1
     /\ form'.posted[Len(form'.posted)].kind = "retry") =>
        /\ form.waiting /\ form'.failureCount = form.failureCount
        /\ form.delay = <<1000, 2000, 4000>>[form.failureCount]
        /\ form.delay <= 30000
        /\ form'.posted[Len(form'.posted)].key = form.posted[Len(form.posted)].key

\* A pending submission that the bound on posted leaves room to finish ends
\* in success or in an error state.
C30_Live ==
    (/\ form.status = "pending"
     /\ Len(form.posted) + (3 - form.failureCount) + (IF form.waiting THEN 1 ELSE 0) <= MaxPosts)
        ~> (form.status \in {"success", "error"})

\* C30: one submission through useCreateExpense terminates: it posts at most
\* four requests (the first attempt and 3 retries), waits min(1000 * 2^i,
\* 30000) ms before retry i (1 s, 2 s, 4 s), and ends in success or in an
\* error state.
C30_SubmissionTerminates == [](C30_AtMostFour) /\ [][C30_Step]_vars /\ C30_Live

\* A submission has ended in the error state after four requests, the last
\* of them posted after a wait of 4 s.
W_C30_FailedAfterFour ==
    /\ form.mounted /\ form.status = "error" /\ form.failureCount = 3
    /\ form.delay = 4000
    /\ Len(form.posted) = 4
    /\ form.posted[1].kind = "submit" /\ form.posted[4].kind = "retry"

====
